---- MODULE Spec2Model ----
(***************************************************************************)
(* ecef_to_sez.py: conversion of an ECEF position to the topocentric SEZ   *)
(* frame of an ECEF origin.                                                *)
(*                                                                         *)
(* The script is modelled statement group by statement group (pc), the     *)
(* helper matrix_multiply both as an operator (its use at line 119) and as *)
(* a small step machine of its own (SpecMM).                               *)
(*                                                                         *)
(* Python floats are modelled as decimal floating-point numbers with an    *)
(* eight digit mantissa, m * 10^e, plus NaN.  A Python exception raised by *)
(* an arithmetic operation is a value of its own kind that every later     *)
(* operation of the same expression passes on, so that a statement either  *)
(* yields a float or the exception that aborted it.  Infinities and signed *)
(* zeros are not modelled: the inputs of the model are NaN or of moderate  *)
(* size, and on those Python produces neither.                             *)
(***************************************************************************)
EXTENDS Integers, Sequences, FiniteSets, TLC

---------------------------------------------------------------------------
(* Integer helpers of the float arithmetic *)

Abs(n) == IF n < 0 THEN -n ELSE n

Sgn(n) == IF n < 0 THEN -1 ELSE IF n > 0 THEN 1 ELSE 0

\* mantissas are normalised into MantMin .. MantMax-1
MantMax == 10^8

MantMin == 10^7

Limb == 10^4

\* n / d rounded half away from zero (d > 0)
RoundDiv(n, d) == Sgn(n) * ((Abs(n) + d \div 2) \div d)

RECURSIVE Pow10(_)
Pow10(d) == IF d = 0 THEN 1 ELSE 10 * Pow10(d - 1)

---------------------------------------------------------------------------
(* Float values *)

NaN == [k |-> "nan", m |-> 0, e |-> 0]

Zero == [k |-> "num", m |-> 0, e |-> 0]

\* a raised Python exception, as the value of the expression that raised it
Raise(name) == [k |-> name, m |-> 0, e |-> 0]

IsExc(a) == a.k \notin {"num", "nan"}

\* math.isnan
IsNaN(a) == a.k = "nan"

IsNum(a) == a.k = "num"

\* the float nearest to n * 10^e
RECURSIVE Norm(_, _)
Norm(n, e) ==
  IF n = 0 THEN Zero
  ELSE IF Abs(n) >= MantMax THEN Norm(RoundDiv(n, 10), e + 1)
  ELSE IF Abs(n) < MantMin THEN Norm(n * 10, e - 1)
  ELSE [k |-> "num", m |-> n, e |-> e]

\* an int used where a float is expected (0, 1, 1.0 ...)
FInt(n) == Norm(n, 0)

FNeg(a) == IF a.k = "num" THEN [a EXCEPT !.m = -a.m] ELSE a

\* abs()
FAbs(a) == IF a.k = "num" THEN [a EXCEPT !.m = Abs(a.m)] ELSE a

\* a + b
FAdd(a, b) ==
  IF IsExc(a) THEN a
  ELSE IF IsExc(b) THEN b
  ELSE IF IsNaN(a) \/ IsNaN(b) THEN NaN
  ELSE IF a.m = 0 THEN b
  ELSE IF b.m = 0 THEN a
  ELSE LET hi == IF a.e >= b.e THEN a ELSE b
           lo == IF a.e >= b.e THEN b ELSE a
           d  == hi.e - lo.e
       IN  IF d > 9 THEN hi
           ELSE Norm(hi.m * 10 + RoundDiv(lo.m * 10, Pow10(d)), hi.e - 1)

\* a - b
FSub(a, b) == FAdd(a, FNeg(b))

\* a * b
FMul(a, b) ==
  IF IsExc(a) THEN a
  ELSE IF IsExc(b) THEN b
  ELSE IF IsNaN(a) \/ IsNaN(b) THEN NaN
  ELSE IF a.m = 0 \/ b.m = 0 THEN Zero
  ELSE LET x  == Abs(a.m)
           y  == Abs(b.m)
           x1 == x \div Limb
           x0 == x % Limb
           y1 == y \div Limb
           y0 == y % Limb
           hh == x1 * y1
           t  == x1 * y0 + x0 * y1 + (x0 * y0) \div Limb
           s  == Sgn(a.m) * Sgn(b.m)
       IN  IF hh < MantMin
           THEN Norm(s * (hh * 100 + t \div 100), a.e + b.e + 6)
           ELSE Norm(s * (hh * 10 + t \div 1000), a.e + b.e + 7)

\* the digits of r / y after the point, appended to q (0 <= r < y)
RECURSIVE LongDiv(_, _, _, _)
LongDiv(q, r, y, digits) ==
  IF digits = 0 THEN q
  ELSE LongDiv(q * 10 + (r * 10) \div y, (r * 10) % y, y, digits - 1)

\* a / b: Python raises ZeroDivisionError on a zero divisor, whatever a is
FDiv(a, b) ==
  IF IsExc(a) THEN a
  ELSE IF IsExc(b) THEN b
  ELSE IF IsNum(b) /\ b.m = 0 THEN Raise("ZeroDivisionError")
  ELSE IF IsNaN(a) \/ IsNaN(b) THEN NaN
  ELSE IF a.m = 0 THEN Zero
  ELSE LET x == Abs(a.m)
           y == Abs(b.m)
           n == IF x < y THEN 9 ELSE 8
           q == LongDiv(x \div y, x % y, y, n)
       IN  Norm(Sgn(a.m) * Sgn(b.m) * q, a.e - b.e - n)

\* a > b, a < b, a <= b: False whenever an operand is NaN
FGt(a, b) == IsNum(a) /\ IsNum(b) /\ FSub(a, b).m > 0

FLt(a, b) == FGt(b, a)

FLe(a, b) == IsNum(a) /\ IsNum(b) /\ FSub(a, b).m <= 0

---------------------------------------------------------------------------
(* The functions of Python's math module the script calls *)

\* math.pi and fractions of it, to eight digits
PI == [k |-> "num", m |-> 31415927, e |-> -7]

HalfPI == [k |-> "num", m |-> 15707963, e |-> -7]

SixthPI == [k |-> "num", m |-> 52359878, e |-> -8]

Sqrt3 == [k |-> "num", m |-> 17320508, e |-> -7]

\* tan(pi/12), above which atan reduces its argument
TanTwelfthPI == [k |-> "num", m |-> 26794919, e |-> -8]

Half == [k |-> "num", m |-> 50000000, e |-> -8]

One == [k |-> "num", m |-> 10000000, e |-> -7]

\* the largest r with r * r <= n
RECURSIVE ISqrt(_)
ISqrt(n) ==
  IF n < 2 THEN n
  ELSE LET r == 2 * ISqrt(n \div 4)
       IN  IF (r + 1) * (r + 1) <= n THEN r + 1 ELSE r

\* Newton's iteration for the square root of a, from the guess g
RECURSIVE SqrtNewton(_, _, _)
SqrtNewton(a, g, steps) ==
  IF steps = 0 THEN g
  ELSE SqrtNewton(a, FAdd(g, FMul(Half, FSub(FDiv(a, g), g))), steps - 1)

\* math.sqrt: ValueError below zero, NaN for NaN
FSqrt(a) ==
  IF IsExc(a) THEN a
  ELSE IF IsNaN(a) THEN NaN
  ELSE IF a.m < 0 THEN Raise("ValueError")
  ELSE IF a.m = 0 THEN Zero
  ELSE LET odd == a.e % 2 = 1
           n   == IF odd THEN a.m * 10 ELSE a.m
           e   == IF odd THEN a.e - 1 ELSE a.e
       IN  SqrtNewton(a, Norm(ISqrt(n), e \div 2), 4)

\* x - x^3/3! + x^5/5! - ..., term being the term of index k
RECURSIVE SinSeries(_, _, _, _)
SinSeries(acc, term, x2, k) ==
  IF k = 9 \/ term.m = 0 THEN acc
  ELSE LET next == FNeg(FDiv(FMul(term, x2), FInt((2 * k + 2) * (2 * k + 3))))
       IN  SinSeries(FAdd(acc, next), next, x2, k + 1)

\* 1 - x^2/2! + x^4/4! - ...
RECURSIVE CosSeries(_, _, _, _)
CosSeries(acc, term, x2, k) ==
  IF k = 9 \/ term.m = 0 THEN acc
  ELSE LET next == FNeg(FDiv(FMul(term, x2), FInt((2 * k + 1) * (2 * k + 2))))
       IN  CosSeries(FAdd(acc, next), next, x2, k + 1)

\* a sine or cosine is within [-1, 1], whatever the rounding of its series
Clamp1(a) ==
  IF FGt(a, One) THEN One ELSE IF FLt(a, FNeg(One)) THEN FNeg(One) ELSE a

\* math.sin, for the arguments the script has: |x| <= pi (a latitude or a
\* longitude), which is reduced to |x| <= pi/2
FSin(x) ==
  IF ~IsNum(x) THEN x
  ELSE LET r == IF FGt(x, HalfPI) THEN FSub(PI, x)
                ELSE IF FLt(x, FNeg(HalfPI)) THEN FSub(FNeg(PI), x)
                ELSE x
       IN  Clamp1(SinSeries(r, r, FMul(r, r), 0))

\* math.cos, for |x| <= pi
FCos(x) ==
  IF ~IsNum(x) THEN x
  ELSE LET a == FAbs(x)
       IN  IF FGt(a, HalfPI)
           THEN LET r == FSub(PI, a)
                IN  FNeg(Clamp1(CosSeries(One, One, FMul(r, r), 0)))
           ELSE Clamp1(CosSeries(One, One, FMul(a, a), 0))

\* u - u^3/3 + u^5/5 - ..., pow being u^(2k+1) with its sign
RECURSIVE AtanSeries(_, _, _, _)
AtanSeries(acc, pow, u2, k) ==
  IF k = 9 \/ pow.m = 0 THEN acc
  ELSE LET next == FNeg(FMul(pow, u2))
       IN  AtanSeries(FAdd(acc, FDiv(next, FInt(2 * k + 3))), next, u2, k + 1)

\* atan of 0 <= u <= 1
AtanUnit(u) ==
  IF FGt(u, TanTwelfthPI)
  THEN LET v == FDiv(FSub(FMul(u, Sqrt3), One), FAdd(Sqrt3, u))
       IN  FAdd(SixthPI, AtanSeries(v, v, FMul(v, v), 0))
  ELSE AtanSeries(u, u, FMul(u, u), 0)

\* math.atan
FAtan(x) ==
  IF ~IsNum(x) THEN x
  ELSE LET a == FAbs(x)
           r == IF FGt(a, One) THEN FSub(HalfPI, AtanUnit(FDiv(One, a)))
                ELSE AtanUnit(a)
       IN  IF x.m < 0 THEN FNeg(r) ELSE r

\* math.asin: ValueError outside [-1, 1]
FAsin(x) ==
  IF ~IsNum(x) THEN x
  ELSE IF FGt(FAbs(x), One) THEN Raise("ValueError")
  ELSE IF FAbs(x) = One THEN (IF x.m < 0 THEN FNeg(HalfPI) ELSE HalfPI)
  ELSE FAtan(FDiv(x, FSqrt(FMul(FSub(One, x), FAdd(One, x)))))

\* math.atan2(y, x), without signed zeros: atan2(0, 0) = 0
FAtan2(y, x) ==
  IF IsExc(y) THEN y
  ELSE IF IsExc(x) THEN x
  ELSE IF IsNaN(y) \/ IsNaN(x) THEN NaN
  ELSE IF x.m > 0 THEN FAtan(FDiv(y, x))
  ELSE IF x.m < 0 THEN (IF y.m >= 0 THEN FAdd(FAtan(FDiv(y, x)), PI)
                        ELSE FSub(FAtan(FDiv(y, x)), PI))
  ELSE IF y.m > 0 THEN HalfPI
  ELSE IF y.m < 0 THEN FNeg(HalfPI)
  ELSE Zero

---------------------------------------------------------------------------
(* float(str), for the argument syntax the model uses: an optional sign,   *)
(* decimal digits with at most one point, or nan.  Anything else raises    *)
(* ValueError.  A string is a sequence of one-character strings.           *)

DigitChars == <<"0", "1", "2", "3", "4", "5", "6", "7", "8", "9">>

IsDigit(c) == \E i \in 1..10 : DigitChars[i] = c

DigitVal(c) == (CHOOSE i \in 1..10 : DigitChars[i] = c) - 1

\* the digits of s from position i on: [ok, n, frac, digits], n the integer
\* the digits spell and frac the number of them after the point
RECURSIVE ParseDigits(_, _, _, _, _, _)
ParseDigits(s, i, n, frac, dot, digits) ==
  IF i > Len(s) THEN [ok |-> digits > 0, n |-> n, frac |-> frac]
  ELSE IF s[i] = "." THEN
         IF dot THEN [ok |-> FALSE, n |-> 0, frac |-> 0]
         ELSE ParseDigits(s, i + 1, n, frac, TRUE, digits)
  ELSE IF IsDigit(s[i]) THEN
         ParseDigits(s, i + 1, n * 10 + DigitVal(s[i]),
                     IF dot THEN frac + 1 ELSE frac, dot, digits + 1)
  ELSE [ok |-> FALSE, n |-> 0, frac |-> 0]

\* float(s)
ParseFloat(s) ==
  IF s = <<"n", "a", "n">> THEN NaN
  ELSE LET signed == Len(s) > 0 /\ s[1] \in {"-", "+"}
           r      == ParseDigits(s, IF signed THEN 2 ELSE 1, 0, 0, FALSE, 0)
       IN  IF ~r.ok THEN Raise("ValueError")
           ELSE IF signed /\ s[1] = "-" THEN Norm(-r.n, -r.frac)
           ELSE Norm(r.n, -r.frac)

---------------------------------------------------------------------------
(* "constants" *)

R_E_KM == [k |-> "num", m |-> 63781370, e |-> -4]

\* 0.081819221456, to eight digits
E_E == [k |-> "num", m |-> 81819221, e |-> -9]

\* the literal 10e-7 of the loop condition
Tolerance == [k |-> "num", m |-> 10000000, e |-> -13]

\* the iteration cap of the loop condition, count<5
MaxCount == 5

\* x**2
FSq(a) == FMul(a, a)

---------------------------------------------------------------------------
(* helper functions *)

\* calc_denom
calc_denom(ecc, lat_rad) ==
  FSqrt(FSub(One, FMul(FSq(ecc), FSq(FSin(lat_rad)))))

\* A matrix is a sequence of rows, each a sequence of floats.
Rows(matrix) == Len(matrix)

Cols(matrix) == Len(matrix[1])

\* the rows of both matrices compared instead
DimMismatchRows(matrix1, matrix2) == Rows(matrix1) # Rows(matrix2)

\* the check of line 51
DimMismatch(matrix1, matrix2) == Cols(matrix1) # Rows(matrix2)

\* line 55: result = [[0 for _ in range(cols_matrix2)] for _ in range(rows_matrix1)]
ZeroMatrix(rows, cols) == [i \in 1..rows |-> [j \in 1..cols |-> FInt(0)]]

\* = written for +=: each product overwrites the entry
RECURSIVE AccumulateAssign(_, _, _, _, _, _)
AccumulateAssign(matrix1, matrix2, i, j, k, acc) ==
  IF k > Cols(matrix1) THEN acc
  ELSE AccumulateAssign(matrix1, matrix2, i, j, k + 1,
                        FMul(matrix1[i][k], matrix2[k][j]))

\* the loop over k of lines 58-59, from k on: acc += matrix1[i][k] * matrix2[k][j]
RECURSIVE Accumulate(_, _, _, _, _, _)
Accumulate(matrix1, matrix2, i, j, k, acc) ==
  IF k > Cols(matrix1) THEN acc
  ELSE Accumulate(matrix1, matrix2, i, j, k + 1,
                  FAdd(acc, FMul(matrix1[i][k], matrix2[k][j])))

\* lines 56-59 on the result allocated at line 55
MultiplyInto(result, matrix1, matrix2) ==
  [i \in 1..Rows(matrix1) |->
     [j \in 1..Cols(matrix2) |->
        Accumulate(matrix1, matrix2, i, j, 1, result[i][j])]]

\* what a call of matrix_multiply yields: the matrix returned or the
\* exception raised
Returned(matrix) == [exc |-> "none", value |-> matrix]

Raised(name) == [exc |-> name, value |-> <<>>]

\* matrix_multiply
matrix_multiply(matrix1, matrix2) ==
  IF DimMismatch(matrix1, matrix2) THEN Raised("ValueError")
  ELSE Returned(MultiplyInto(ZeroMatrix(Rows(matrix1), Cols(matrix2)),
                             matrix1, matrix2))

---------------------------------------------------------------------------
(* The script *)

VARIABLES
  argv,          \* sys.argv: the script's name, then the arguments
  pc,            \* the statement group the script is at
  o_x_km, o_y_km, o_z_km, x_km, y_km, z_km,
  o_lon_rad, o_lat_rad, r_lon_km, prev_lat_rad,
  denom, c_E, count,
  r_rel_ecef, Ryinv, Rzinv, r_sez,
  stdout,        \* the lines printed so far
  exc,           \* the uncaught exception that ended the script, or "none"
  \* a call of matrix_multiply on its own
  matrix1, matrix2, result, mm_pc

scriptVars ==
  <<argv, pc, o_x_km, o_y_km, o_z_km, x_km, y_km, z_km, o_lon_rad, o_lat_rad,
    r_lon_km, prev_lat_rad, denom, c_E, count, r_rel_ecef, Ryinv, Rzinv,
    r_sez, stdout, exc>>

mmVars == <<matrix1, matrix2, result, mm_pc>>

vars == <<scriptVars, mmVars>>

\* a name not bound yet
Undef == [k |-> "undef", m |-> 0, e |-> 0]

\* the line the usage message prints
UsageLine == [k |-> "usage", m |-> 0, e |-> 0]

(* The command lines of the model: an origin, a target, and the first n    *)
(* arguments of origin, target and further arguments.                      *)

MaxArgs == 7

TestOrigin ==
  << <<"8", "2", "2", ".", "9", "3", "3">>,
     <<"-", "4", "7", "8", "7", ".", "1", "8", "7">>,
     <<"4", "1", "2", "0", ".", "2", "6", "2">> >>

TestTarget ==
  << <<"1", "1", "3", "1", ".", "6", "9", "8">>,
     <<"-", "4", "4", "7", "9", ".", "3", "2", "4">>,
     <<"4", "4", "3", "0", ".", "2", "2", "8">> >>

Origins ==
  { TestOrigin,
    << <<"0">>, <<"0">>, <<"0">> >>,
    << <<"0">>, <<"0">>, <<"6", "3", "5", "6", ".", "7", "5", "2">> >>,
    << <<"0", ".", "0">>, <<"0">>, <<"-", "6", "0", "0", "0">> >>,
    << <<"6", "3", "7", "8", ".", "1", "3", "7">>, <<"0">>, <<"0">> >>,
    << <<"-", "3", "0", "0", "0">>, <<"2", "0", "0", "0">>,
       <<"-", "5", "0", "0", "0">> >>,
    << <<"5">>, <<"3">>, <<"2">> >>,
    << <<"1", "0", "0">>, <<"0">>, <<"+", "3">> >>,
    << <<"n", "a", "n">>, <<"1">>, <<"1">> >>,
    << <<"7", "0", "0", "0">>, <<"a", "b", "c">>, <<"1">> >>,
    << <<"1", ".", "2", ".", "3">>, <<"1">>, <<"1">> >> }

Targets ==
  { TestTarget,
    << <<"1">>, <<"1">>, <<"1">> >>,
    << <<"7", "0", "0", "0">>, <<"n", "a", "n">>, <<"0">> >>,
    << <<"1">>, <<"-">>, <<"1">> >> }

ScriptName == <<"e", "c", "e", "f">>

FurtherArgs == [i \in 1..(MaxArgs - 6) |-> <<"7">>]

CommandLines ==
  { <<ScriptName>> \o SubSeq(o \o t \o FurtherArgs, 1, n) :
      o \in Origins, t \in Targets \cup Origins, n \in 0..MaxArgs }

NoMatrix == <<>>

\* lines 63-69, with sys.argv given
Init ==
  /\ argv \in CommandLines
  /\ pc = "parse"
  /\ o_x_km = NaN /\ o_y_km = NaN /\ o_z_km = NaN
  /\ x_km = NaN /\ y_km = NaN /\ z_km = NaN
  /\ o_lon_rad = Undef /\ o_lat_rad = Undef /\ r_lon_km = Undef
  /\ prev_lat_rad = Undef /\ denom = Undef /\ c_E = Undef
  /\ count = 0
  /\ r_rel_ecef = NoMatrix /\ Ryinv = NoMatrix /\ Rzinv = NoMatrix
  /\ r_sez = NoMatrix
  /\ stdout = <<>>
  /\ exc = "none"
  /\ matrix1 = NoMatrix /\ matrix2 = NoMatrix /\ result = NoMatrix
  /\ mm_pc = "off"

\* the floats of argv[1..6], in the order the script converts them
ParsedArgs == [i \in 1..6 |-> ParseFloat(argv[i + 1])]

\* the first argument float() rejects, 0 if it accepts all six
FirstBad(parsed) ==
  IF \E i \in 1..6 : IsExc(parsed[i])
  THEN CHOOSE i \in 1..6 : IsExc(parsed[i]) /\ \A j \in 1..(i - 1) : ~IsExc(parsed[j])
  ELSE 0

\* the name assigned at position i is bound when float() raises at position bad
Bound(parsed, i, bad, old) == IF bad = 0 \/ i < bad THEN parsed[i] ELSE old

\* lines 72-78: six arguments
ParseArgs ==
  /\ pc = "parse"
  /\ Len(argv) = 7
  /\ LET parsed == ParsedArgs
         bad    == FirstBad(parsed)
     IN  /\ o_x_km' = Bound(parsed, 1, bad, o_x_km)
         /\ o_y_km' = Bound(parsed, 2, bad, o_y_km)
         /\ o_z_km' = Bound(parsed, 3, bad, o_z_km)
         /\ x_km' = Bound(parsed, 4, bad, x_km)
         /\ y_km' = Bound(parsed, 5, bad, y_km)
         /\ z_km' = Bound(parsed, 6, bad, z_km)
         /\ pc' = IF bad = 0 THEN "lon" ELSE "raised"
         /\ exc' = IF bad = 0 THEN "none" ELSE parsed[bad].k
  /\ UNCHANGED <<argv, o_lon_rad, o_lat_rad, r_lon_km, prev_lat_rad, denom,
                 c_E, count, r_rel_ecef, Ryinv, Rzinv, r_sez, stdout, mmVars>>

\* lines 79-84: any other number of arguments
Usage ==
  /\ pc = "parse"
  /\ Len(argv) # 7
  /\ stdout' = Append(stdout, UsageLine)
  /\ pc' = "exited"
  /\ UNCHANGED <<argv, o_x_km, o_y_km, o_z_km, x_km, y_km, z_km, o_lon_rad,
                 o_lat_rad, r_lon_km, prev_lat_rad, denom, c_E, count,
                 r_rel_ecef, Ryinv, Rzinv, r_sez, exc, mmVars>>

\* line 90
CalcLongitude ==
  /\ pc = "lon"
  /\ o_lon_rad' = FAtan2(o_y_km, o_x_km)
  /\ pc' = "lat"
  /\ UNCHANGED <<argv, o_x_km, o_y_km, o_z_km, x_km, y_km, z_km, o_lat_rad,
                 r_lon_km, prev_lat_rad, denom, c_E, count, r_rel_ecef,
                 Ryinv, Rzinv, r_sez, stdout, exc, mmVars>>

\* the right-hand side of line 93
GeocentricLat ==
  FAsin(FDiv(o_z_km,
             FSqrt(FAdd(FAdd(FSq(o_x_km), FSq(o_y_km)), FSq(o_z_km)))))

\* lines 93-99
InitLatitude ==
  /\ pc = "lat"
  /\ LET lat == GeocentricLat
     IN  IF IsExc(lat)
         THEN /\ pc' = "raised"
              /\ exc' = lat.k
              /\ UNCHANGED <<o_lat_rad, r_lon_km, prev_lat_rad, c_E>>
         ELSE /\ o_lat_rad' = lat
              /\ r_lon_km' = FSqrt(FAdd(FSq(o_x_km), FSq(o_y_km)))
              /\ prev_lat_rad' = NaN
              /\ c_E' = NaN
              /\ pc' = "loop"
              /\ exc' = exc
  /\ count' = 0
  /\ UNCHANGED <<argv, o_x_km, o_y_km, o_z_km, x_km, y_km, z_km, o_lon_rad,
                 denom, r_rel_ecef, Ryinv, Rzinv, r_sez, stdout, mmVars>>

\* the cap off by one: count<=5
LoopCondOffByOne ==
  /\ IsNaN(prev_lat_rad) \/ FGt(FAbs(FSub(o_lat_rad, prev_lat_rad)), Tolerance)
  /\ count < MaxCount + 1

\* the test for the undefined previous latitude left out
LoopCondNoNaNTest ==
  /\ FGt(FAbs(FSub(o_lat_rad, prev_lat_rad)), Tolerance)
  /\ count < MaxCount

\* the condition of the while of line 100
LoopCond ==
  /\ IsNaN(prev_lat_rad) \/ FGt(FAbs(FSub(o_lat_rad, prev_lat_rad)), Tolerance)
  /\ count < MaxCount

\* the right-hand side of line 104, c being the c_E of line 102
NextLat(lat_rad, c) ==
  FAtan(FDiv(FAdd(o_z_km, FMul(FMul(c, FSq(E_E)), FSin(lat_rad))), r_lon_km))

\* lines 100-105: one pass of the loop body
LoopIterate ==
  /\ pc = "loop"
  /\ LoopCond
  /\ denom' = calc_denom(E_E, o_lat_rad)
  /\ c_E' = FDiv(R_E_KM, denom')
  /\ prev_lat_rad' = o_lat_rad
  /\ LET lat == NextLat(o_lat_rad, c_E')
     IN  IF IsExc(lat)
         THEN /\ pc' = "raised"
              /\ exc' = lat.k
              /\ UNCHANGED <<o_lat_rad, count>>
         ELSE /\ o_lat_rad' = lat
              /\ count' = count + 1
              /\ pc' = "loop"
              /\ exc' = exc
  /\ UNCHANGED <<argv, o_x_km, o_y_km, o_z_km, x_km, y_km, z_km, o_lon_rad,
                 r_lon_km, r_rel_ecef, Ryinv, Rzinv, r_sez, stdout, mmVars>>

\* line 100: the condition is false, the loop is left
LoopExit ==
  /\ pc = "loop"
  /\ ~LoopCond
  /\ pc' = "sez"
  /\ UNCHANGED <<argv, o_x_km, o_y_km, o_z_km, x_km, y_km, z_km, o_lon_rad,
                 o_lat_rad, r_lon_km, prev_lat_rad, denom, c_E, count,
                 r_rel_ecef, Ryinv, Rzinv, r_sez, stdout, exc, mmVars>>

\* a component of the origin mistaken for another
RelativeVectorMixed ==
  << <<FSub(x_km, o_y_km)>>, <<FSub(y_km, o_x_km)>>, <<FSub(z_km, o_z_km)>> >>

\* line 108
RelativeVector ==
  << <<FSub(x_km, o_x_km)>>, <<FSub(y_km, o_y_km)>>, <<FSub(z_km, o_z_km)>> >>

\* sine and cosine exchanged: the rotation by the latitude, not its complement
RyinvOfLatitude(lat_rad) ==
  << <<FCos(lat_rad), FInt(0), FNeg(FSin(lat_rad))>>,
     <<FInt(0), FInt(1), FInt(0)>>,
     <<FSin(lat_rad), FInt(0), FCos(lat_rad)>> >>

\* lines 110-113
RyinvOf(lat_rad) ==
  << <<FSin(lat_rad), FInt(0), FNeg(FCos(lat_rad))>>,
     <<FInt(0), FInt(1), FInt(0)>>,
     <<FCos(lat_rad), FInt(0), FSin(lat_rad)>> >>

\* lines 114-117
RzinvOf(lon_rad) ==
  << <<FCos(lon_rad), FSin(lon_rad), FInt(0)>>,
     <<FNeg(FSin(lon_rad)), FCos(lon_rad), FInt(0)>>,
     <<FInt(0), FInt(0), FInt(1)>> >>

\* the two rotations applied in the other order
ComposeSwapped(ry, rz, r_rel) ==
  matrix_multiply(rz, matrix_multiply(ry, r_rel).value).value

\* line 119
Compose(ry, rz, r_rel) ==
  matrix_multiply(ry, matrix_multiply(rz, r_rel).value).value

\* lines 108-119
FindSez ==
  /\ pc = "sez"
  /\ r_rel_ecef' = RelativeVector
  /\ Ryinv' = RyinvOf(o_lat_rad)
  /\ Rzinv' = RzinvOf(o_lon_rad)
  /\ r_sez' = Compose(Ryinv', Rzinv', r_rel_ecef')
  /\ pc' = "print"
  /\ UNCHANGED <<argv, o_x_km, o_y_km, o_z_km, x_km, y_km, z_km, o_lon_rad,
                 o_lat_rad, r_lon_km, prev_lat_rad, denom, c_E, count,
                 stdout, exc, mmVars>>

\* lines 121-123; a printed line is kept as the float it prints
PrintSez ==
  /\ pc = "print"
  /\ stdout' = stdout \o <<r_sez[1][1], r_sez[2][1], r_sez[3][1]>>
  /\ pc' = "done"
  /\ UNCHANGED <<argv, o_x_km, o_y_km, o_z_km, x_km, y_km, z_km, o_lon_rad,
                 o_lat_rad, r_lon_km, prev_lat_rad, denom, c_E, count,
                 r_rel_ecef, Ryinv, Rzinv, r_sez, exc, mmVars>>

Next ==
  \/ ParseArgs
  \/ Usage
  \/ CalcLongitude
  \/ InitLatitude
  \/ LoopIterate
  \/ LoopExit
  \/ FindSez
  \/ PrintSez

Spec == Init /\ [][Next]_vars

---------------------------------------------------------------------------
(* matrix_multiply on its own: a call with two matrices, one of at most    *)
(* MaxCells entries and one of at most MaxSmallCells entries or an         *)
(* identity matrix, in either order.                                       *)

MaxCells == 4

MaxSmallCells == 2

\* the entries of the matrices: 0, -2.5 and NaN
MatrixEntries == {FInt(0), Norm(-25, -1), NaN}

Shapes(cells) ==
  {sh \in (1..cells) \X (1..cells) : sh[1] * sh[2] <= cells}

MatricesUpTo(cells) ==
  UNION {[1..sh[1] -> [1..sh[2] -> MatrixEntries]] : sh \in Shapes(cells)}

Identity(n) ==
  [i \in 1..n |-> [j \in 1..n |-> IF i = j THEN FInt(1) ELSE FInt(0)]]

SmallMatrices ==
  MatricesUpTo(MaxSmallCells) \cup {Identity(n) : n \in 1..MaxCells}

InitMM ==
  /\ \/ matrix1 \in MatricesUpTo(MaxCells) /\ matrix2 \in SmallMatrices
     \/ matrix1 \in SmallMatrices /\ matrix2 \in MatricesUpTo(MaxCells)
  /\ result = NoMatrix
  /\ mm_pc = "call"
  /\ argv = <<ScriptName>>
  /\ pc = "off"
  /\ o_x_km = NaN /\ o_y_km = NaN /\ o_z_km = NaN
  /\ x_km = NaN /\ y_km = NaN /\ z_km = NaN
  /\ o_lon_rad = Undef /\ o_lat_rad = Undef /\ r_lon_km = Undef
  /\ prev_lat_rad = Undef /\ denom = Undef /\ c_E = Undef
  /\ count = 0
  /\ r_rel_ecef = NoMatrix /\ Ryinv = NoMatrix /\ Rzinv = NoMatrix
  /\ r_sez = NoMatrix
  /\ stdout = <<>>
  /\ exc = "none"

\* lines 44-52: the dimensions are compared and the call raises
MMRaise ==
  /\ mm_pc = "call"
  /\ DimMismatch(matrix1, matrix2)
  /\ mm_pc' = "raised"
  /\ UNCHANGED <<matrix1, matrix2, result, scriptVars>>

\* lines 44-55: the dimensions agree and result is allocated
MMAllocate ==
  /\ mm_pc = "call"
  /\ ~DimMismatch(matrix1, matrix2)
  /\ result' = ZeroMatrix(Rows(matrix1), Cols(matrix2))
  /\ mm_pc' = "loops"
  /\ UNCHANGED <<matrix1, matrix2, scriptVars>>

\* lines 56-61
MMLoops ==
  /\ mm_pc = "loops"
  /\ result' = MultiplyInto(result, matrix1, matrix2)
  /\ mm_pc' = "returned"
  /\ UNCHANGED <<matrix1, matrix2, scriptVars>>

NextMM ==
  \/ MMRaise
  \/ MMAllocate
  \/ MMLoops

SpecMM == InitMM /\ [][NextMM]_vars

---------------------------------------------------------------------------
(* Properties *)

Terminal == pc \in {"exited", "done", "raised"}

\* exactly six arguments, each accepted by float()
SixNumeric ==
  /\ Len(argv) = 7
  /\ \A i \in 2..7 : ~IsExc(ParseFloat(argv[i]))

\* nothing of the core (lines 88-123) has run
CoreUntouched ==
  /\ o_lon_rad = Undef /\ o_lat_rad = Undef /\ r_lon_km = Undef
  /\ prev_lat_rad = Undef /\ c_E = Undef /\ count = 0
  /\ r_rel_ecef = NoMatrix /\ Ryinv = NoMatrix /\ Rzinv = NoMatrix
  /\ r_sez = NoMatrix
  /\ \A i \in 1..Len(stdout) : stdout[i] = UsageLine

\* C1: given anything other than exactly six numeric arguments the core is
\* never executed and the script prints the usage message and terminates
\* normally; given six numeric arguments the core runs and exactly three
\* output lines are printed.
C1_UsageUnlessSixNumeric ==
  /\ ~SixNumeric =>
       /\ CoreUntouched
       /\ Terminal => pc = "exited" /\ stdout = <<UsageLine>> /\ exc = "none"
  /\ SixNumeric /\ Terminal =>
       /\ pc = "done"
       /\ Len(stdout) = 3
       /\ \A i \in 1..3 : stdout[i] # UsageLine

\* the absolute difference of the latitude and the previous latitude
LatDelta == FAbs(FSub(o_lat_rad, prev_lat_rad))

\* one pass of the loop body is entered: it completes or it raises
BodyEntered == pc = "loop" /\ (count' = count + 1 \/ pc' = "raised")

\* C2: the latitude loop always terminates: its body runs only while the
\* counter is below 5, the counter stays in 0..5 and grows by exactly 1 per
\* pass, so that each step at the loop either is one of at most 5 passes or
\* leaves the loop, and at the cap the loop is left without any error, the
\* latest latitude being the one used.
C2_LoopTerminates ==
  /\ [](count \in 0..5)
  /\ [][BodyEntered => count < 5]_vars
  /\ [][count' # count => pc = "loop" /\ pc' = "loop" /\ count' = count + 1]_vars
  /\ [][pc = "loop" /\ pc' = "loop" => count' = count + 1]_vars
  /\ [][pc = "loop" /\ count = 5 =>
          pc' = "sez" /\ exc' = "none" /\ o_lat_rad' = o_lat_rad]_vars

\* the cap is reached with a latitude that has not converged, and the script
\* goes on with it
C2_Witness ==
  /\ pc = "done"
  /\ count = 5
  /\ IsNum(o_lat_rad)
  /\ FGt(LatDelta, Tolerance)
  /\ Ryinv = RyinvOf(o_lat_rad)

\* C3: the first pass of the loop always executes; after each later pass the
\* loop stops exactly when |lat - prev_lat| <= 1e-6 or the count has reached
\* 5, and never earlier.
C3_StopRule ==
  [][pc = "loop" =>
       IF count = 0 THEN pc' \in {"loop", "raised"}
       ELSE (pc' = "sez") <=>
              (FLe(LatDelta, Norm(1, -6)) \/ count = 5)]_vars

\* the loop is left by convergence, before the cap
C3_Witness ==
  /\ pc = "sez"
  /\ count \in 2..4
  /\ FLe(LatDelta, Norm(1, -6))

\* sum over k of matrix1[i][k] * matrix2[k][j], k = 1 .. n
RECURSIVE DotSum(_, _, _)
DotSum(i, j, n) ==
  IF n = 0 THEN FInt(0)
  ELSE FAdd(DotSum(i, j, n - 1), FMul(matrix1[i][n], matrix2[n][j]))

\* C4: matrix_multiply raises the dimension-mismatch error if and only if
\* cols(A) # rows(B), before any entry is computed; for a compatible pair it
\* returns a rows(A) x cols(B) matrix whose entry (i, j) is the sum over k of
\* A[i][k] * B[k][j].
C4_MultiplyContract ==
  /\ mm_pc = "raised" => result = NoMatrix
  /\ mm_pc \in {"raised", "loops", "returned"} =>
       (mm_pc = "raised" <=> Len(matrix1[1]) # Len(matrix2))
  /\ mm_pc = "returned" =>
       /\ Len(result) = Len(matrix1)
       /\ \A i \in 1..Len(result) :
            /\ Len(result[i]) = Len(matrix2[1])
            /\ \A j \in 1..Len(result[i]) :
                 result[i][j] = DotSum(i, j, Len(matrix2))
       /\ matrix_multiply(matrix1, matrix2) = Returned(result)
  /\ mm_pc = "raised" => matrix_multiply(matrix1, matrix2).exc = "ValueError"

\* a 2 x 2 matrix times a 2 x 1 matrix, with an entry that sums two products
C4_Witness ==
  /\ mm_pc = "returned"
  /\ Len(matrix1) = 2 /\ Len(matrix2) = 2 /\ Len(matrix2[1]) = 1
  /\ result[2][1] = Norm(125, -1)

HasNaN(matrix) ==
  \E i \in 1..Len(matrix) : \E j \in 1..Len(matrix[i]) : IsNaN(matrix[i][j])

IdentityLeft == mm_pc = "returned" /\ matrix1 = Identity(Len(matrix2))

IdentityRight == mm_pc = "returned" /\ matrix2 = Identity(Len(matrix1[1]))

\* C5 as stated: for every matrix A, matrix_multiply(I, A) and
\* matrix_multiply(A, I) equal A entry for entry.
C5_IdentityAnyMatrix ==
  /\ IdentityLeft => result = matrix2
  /\ IdentityRight => result = matrix1

\* C5, amended: for every matrix A none of whose entries is NaN,
\* matrix_multiply(I, A) and matrix_multiply(A, I) equal A entry for entry.
C5_IdentityFiniteMatrix ==
  /\ IdentityLeft /\ ~HasNaN(matrix2) => result = matrix2
  /\ IdentityRight /\ ~HasNaN(matrix1) => result = matrix1

\* the identity of size 2 times a 2 x 2 matrix without NaN and not zero
C5_Witness ==
  /\ IdentityLeft
  /\ Len(matrix2) = 2 /\ Len(matrix2[1]) = 2
  /\ ~HasNaN(matrix2)
  /\ matrix2[1][2] # FInt(0) /\ matrix2[2][1] = FInt(0)
  /\ result = matrix2

FiniteOrigin == IsNum(o_x_km) /\ IsNum(o_y_km) /\ IsNum(o_z_km)

TargetIsOrigin == x_km = o_x_km /\ y_km = o_y_km /\ z_km = o_z_km

\* C6: when the target equals the (non-degenerate) origin the relative vector
\* is zero and the SEZ output is (0, 0, 0), whatever the latitude and
\* longitude and whether the loop converged or hit the cap.
C6_OriginMapsToZero ==
  pc \in {"print", "done"} /\ FiniteOrigin /\ TargetIsOrigin =>
    /\ r_rel_ecef = << <<Zero>>, <<Zero>>, <<Zero>> >>
    /\ r_sez = << <<Zero>>, <<Zero>>, <<Zero>> >>
    /\ pc = "done" => stdout = <<Zero, Zero, Zero>>

\* target = origin, the loop having hit the cap without converging
C6_Witness ==
  /\ pc = "done"
  /\ FiniteOrigin /\ TargetIsOrigin
  /\ count = 5 /\ FGt(LatDelta, Tolerance)
  /\ o_lon_rad # Zero
  /\ stdout = <<Zero, Zero, Zero>>

\* C7: with origin (0, 0, 0) the latitude is NaN and the script completes,
\* printing (NaN, NaN, NaN); no exception is thrown.
C7_ZeroOriginPrintsNaN ==
  SixNumeric /\ pc # "parse" /\ o_x_km = Zero /\ o_y_km = Zero /\ o_z_km = Zero =>
    /\ pc # "raised" /\ exc = "none"
    /\ pc \in {"loop", "sez", "print", "done"} => IsNaN(o_lat_rad)
    /\ pc = "done" => stdout = <<NaN, NaN, NaN>>

\* C8: for a finite origin on the polar axis (x = y = 0, z # 0) the geodetic
\* solve raises no exception, and the script goes on to the rotation and
\* prints three values.
C8_PolarOriginNoException ==
  SixNumeric /\ pc # "parse" /\ o_x_km = Zero /\ o_y_km = Zero
    /\ IsNum(o_z_km) /\ o_z_km # Zero =>
    /\ pc # "raised" /\ exc = "none"
    /\ Terminal => pc = "done" /\ Len(stdout) = 3

\* |a - b| <= tol
Within(a, b, tol) == FLe(FAbs(FSub(a, b)), tol)

\* C9: for the documented test vector the script prints S = -398.778,
\* E = 356.458, Z = 10.340, each within 0.01 km.
C9_TestVector ==
  argv = <<ScriptName>> \o TestOrigin \o TestTarget /\ Terminal =>
    /\ pc = "done"
    /\ Len(stdout) = 3
    /\ Within(stdout[1], Norm(-398778, -3), Norm(1, -2))
    /\ Within(stdout[2], Norm(356458, -3), Norm(1, -2))
    /\ Within(stdout[3], Norm(10340, -3), Norm(1, -2))

C9_Witness ==
  /\ argv = <<ScriptName>> \o TestOrigin \o TestTarget
  /\ pc = "done"
  /\ Len(stdout) = 3

\* C10: no rotation matrix exists while the loop is iterating; Ryinv and
\* Rzinv are built after the loop is left, Ryinv from the latitude held at
\* the exit, which at least one refinement has produced, and the result is
\* Ryinv * (Rzinv * r_rel).
C10_RotationAfterLoop ==
  /\ pc \in {"parse", "lon", "lat", "loop", "sez", "exited", "raised"} =>
       Ryinv = NoMatrix /\ Rzinv = NoMatrix /\ r_sez = NoMatrix
  /\ pc \in {"print", "done"} =>
       /\ ~LoopCond
       /\ count >= 1
       /\ c_E = FDiv(R_E_KM, calc_denom(E_E, prev_lat_rad))
       /\ o_lat_rad = NextLat(prev_lat_rad, c_E)
       /\ Ryinv = << <<FSin(o_lat_rad), Zero, FNeg(FCos(o_lat_rad))>>,
                     <<Zero, One, Zero>>,
                     <<FCos(o_lat_rad), Zero, FSin(o_lat_rad)>> >>
       /\ Rzinv = << <<FCos(o_lon_rad), FSin(o_lon_rad), Zero>>,
                     <<FNeg(FSin(o_lon_rad)), FCos(o_lon_rad), Zero>>,
                     <<Zero, Zero, One>> >>
       /\ r_sez = matrix_multiply(Ryinv,
                    matrix_multiply(Rzinv, r_rel_ecef).value).value

\* the rotations are built from a latitude that differs from the first
\* estimate, and their order matters for the result
C10_Witness ==
  /\ pc = "print"
  /\ count = 3
  /\ IsNum(o_lat_rad) /\ o_lat_rad # prev_lat_rad
  /\ r_sez # matrix_multiply(Rzinv,
               matrix_multiply(Ryinv, r_rel_ecef).value).value

====
